---- MODULE Spec2Model ----
(***************************************************************************)
(* The document scanner view (CameraToPdfView): the React state of the     *)
(* component, its refs, the camera streams of the browser and the          *)
(* asynchronous continuations in flight (getUserMedia, corner detection,   *)
(* crop, filter preview, PDF assembly).  Every action is one event handler *)
(* or one continuation after an await, followed by the effects React runs  *)
(* for the render that the handler's state updates cause.                  *)
(***************************************************************************)
EXTENDS Integers, Sequences, FiniteSets, Bags, TLC

VARIABLES
    mounted,          \* the component is mounted (App renders CameraToPdfView)
    cvLoaded,         \* window.cv present and body has class opencv-ready
    isCvReady,
    viewState,
    error,
    isProcessing,
    generatedPdfInfo,
    scannedPages,
    capturedImage,
    corners,
    draggingCorner,
    croppedImage,
    activeFilter,
    previewUrl,
    isPreviewLoading,
    streamRef,        \* streamRef.current: 1 for a stream, 0 for null
    videoSrc,         \* videoRef.current.srcObject: 1 for a stream, 0 for null / no element
    liveStreams,      \* number of streams handed out by getUserMedia whose tracks are not stopped
    camRequests,      \* number of getUserMedia requests still pending
    requestCount,     \* getUserMedia requests issued so far
    captureCount,     \* frames captured so far
    detectTasks,      \* findInitialCorners runs awaiting the image load
    cropTasks,        \* handleApplyCrop runs awaiting the image load
    filterTasks,      \* applyFilter runs awaiting the image load
    pdfTasks,         \* createPdf runs awaiting the PDF library
    now               \* Date.now()

vars == << mounted, cvLoaded, isCvReady, viewState, error, isProcessing,
           generatedPdfInfo, scannedPages, capturedImage, corners,
           draggingCorner, croppedImage, activeFilter, previewUrl,
           isPreviewLoading, streamRef, videoSrc, liveStreams, camRequests,
           requestCount, captureCount, detectTasks, cropTasks, filterTasks,
           pdfTasks, now >>

----------------------------------------------------------------------------
\* Bounds of the model

MaxCamRequests == 2

MaxFilterTasks == 1

----------------------------------------------------------------------------
\* Values

Null == [null |-> TRUE]

\* The result of 0 / 0 in handleCapture; every arithmetic operator below
\* propagates it.
NaN == -1000000

MAX_DIMENSION == 1280

MarginPercent == 5

MinAreaPercent == 10

\* The display shows the captured frame at 1 / DisplayShrink of its size.
DisplayShrink == 2

IsNaN(a) == a = NaN

Mul(a, b) == IF IsNaN(a) \/ IsNaN(b) THEN NaN ELSE a * b

Sub(a, b) == IF IsNaN(a) \/ IsNaN(b) THEN NaN ELSE a - b

\* (num / den) * MAX_DIMENSION; the sizes used divide exactly.
ScaleSide(num, den) ==
    IF den = 0 THEN NaN ELSE (num * MAX_DIMENSION) \div den

\* a * 0.05, a * 0.1
Percent(a, p) == IF IsNaN(a) THEN NaN ELSE (a * p) \div 100

Pt(px, py) == [x |-> px, y |-> py]

ViewStates == {"INITIAL", "SCANNING", "EDITING", "FILTERING"}

Corner == {"tl", "tr", "bl", "br"}

\* The handles the user grabs
Handles == {"tl", "br"}

FilterType == {"normal", "bw", "enhance"}

\* videoWidth x videoHeight of the streams the camera can deliver
VideoSizes == { <<1920, 1080>> }

\* (clientX - rect.left, clientY - rect.top) of the pointer events
ClientPoints == { <<-5, 150>> }

\* canvas.toDataURL of a canvas without pixels
EmptyUrl == [img |-> 0, kind |-> "empty"]

\* img.onload fires for an image that decodes, img.onerror otherwise
Loadable(url) == url.kind # "empty"

----------------------------------------------------------------------------
\* The component's state as one record, so that a handler is a function on it

cur ==
    [ mounted |-> mounted, cvLoaded |-> cvLoaded, isCvReady |-> isCvReady,
      viewState |-> viewState, error |-> error, isProcessing |-> isProcessing,
      generatedPdfInfo |-> generatedPdfInfo, scannedPages |-> scannedPages,
      capturedImage |-> capturedImage, corners |-> corners,
      draggingCorner |-> draggingCorner, croppedImage |-> croppedImage,
      activeFilter |-> activeFilter, previewUrl |-> previewUrl,
      isPreviewLoading |-> isPreviewLoading, streamRef |-> streamRef,
      videoSrc |-> videoSrc, liveStreams |-> liveStreams,
      camRequests |-> camRequests, requestCount |-> requestCount,
      captureCount |-> captureCount, detectTasks |-> detectTasks,
      cropTasks |-> cropTasks, filterTasks |-> filterTasks,
      pdfTasks |-> pdfTasks, now |-> now ]

\* The success view replaces every stage view while generatedPdfInfo is set.
Shown(s, view) ==
    s.mounted /\ s.generatedPdfInfo = Null /\ s.viewState = view

\* The same of the current state
ViewShown(view) ==
    mounted /\ generatedPdfInfo = Null /\ viewState = view

\* videoRef.current is the <video> of renderScannerView, null in other views.
VideoMounted(s) == Shown(s, "SCANNING")

stopCamera(s) ==
    IF s.streamRef # 0
    THEN [s EXCEPT !.liveStreams = @ - 1,
                   !.streamRef = 0,
                   !.videoSrc = 0]
    ELSE s

\* startCamera up to its await: the request is issued, the rest runs in
\* getUserMediaResolved / getUserMediaRejected.
startCamera(s) ==
    IF VideoMounted(s) /\ s.streamRef = 0
    THEN [s EXCEPT !.error = "none",
                   !.requestCount = @ + 1,
                   !.camRequests = @ + 1]
    ELSE s

cameraEffect(old, s) ==
    IF s.viewState = old.viewState THEN s
    ELSE IF s.viewState = "SCANNING" THEN startCamera(s) ELSE stopCamera(s)

filteringEffect(old, s) ==
    IF s.viewState = old.viewState /\ s.croppedImage = old.croppedImage THEN s
    ELSE IF s.viewState = "FILTERING" /\ s.croppedImage # Null
         THEN [s EXCEPT !.previewUrl = s.croppedImage.dataUrl,
                        !.activeFilter = "normal"]
         ELSE s

\* findInitialCorners up to its await
findInitialCorners(s) ==
    IF ~s.cvLoaded
    THEN [s EXCEPT !.error = "engine", !.isProcessing = FALSE]
    ELSE [s EXCEPT !.isProcessing = TRUE,
                   !.detectTasks = @ \cup {s.capturedImage}]

detectionEffect(old, s) ==
    IF s.viewState = old.viewState /\ s.capturedImage = old.capturedImage THEN s
    ELSE IF s.capturedImage # Null /\ s.viewState = "EDITING"
         THEN findInitialCorners(s)
         ELSE s

\* The render after a handler: the <video> element goes away with the scanner
\* view, then the effects run in declaration order.
Render(old, s) ==
    LET dom == IF VideoMounted(s) THEN s ELSE [s EXCEPT !.videoSrc = 0]
    IN  detectionEffect(old, filteringEffect(old, cameraEffect(old, dom)))

\* State setters of an unmounted component do nothing; refs and the browser's
\* streams are still written.
Settle(s) ==
    IF mounted
    THEN Render(cur, s)
    ELSE [cur EXCEPT !.streamRef = s.streamRef,
                     !.videoSrc = s.videoSrc,
                     !.liveStreams = s.liveStreams,
                     !.camRequests = s.camRequests]

Assign(f) ==
    /\ mounted' = f.mounted
    /\ cvLoaded' = f.cvLoaded
    /\ isCvReady' = f.isCvReady
    /\ viewState' = f.viewState
    /\ error' = f.error
    /\ isProcessing' = f.isProcessing
    /\ generatedPdfInfo' = f.generatedPdfInfo
    /\ scannedPages' = f.scannedPages
    /\ capturedImage' = f.capturedImage
    /\ corners' = f.corners
    /\ draggingCorner' = f.draggingCorner
    /\ croppedImage' = f.croppedImage
    /\ activeFilter' = f.activeFilter
    /\ previewUrl' = f.previewUrl
    /\ isPreviewLoading' = f.isPreviewLoading
    /\ streamRef' = f.streamRef
    /\ videoSrc' = f.videoSrc
    /\ liveStreams' = f.liveStreams
    /\ camRequests' = f.camRequests
    /\ requestCount' = f.requestCount
    /\ captureCount' = f.captureCount
    /\ detectTasks' = f.detectTasks
    /\ cropTasks' = f.cropTasks
    /\ filterTasks' = f.filterTasks
    /\ pdfTasks' = f.pdfTasks
    /\ now' = f.now

\* The step of a handler or continuation that leaves the state s.
Commit(s) ==
    \E f \in { Settle(s) } :
        /\ f.requestCount <= MaxCamRequests
        /\ Assign(f)

InitialState ==
    [ mounted |-> TRUE, cvLoaded |-> FALSE, isCvReady |-> FALSE,
      viewState |-> "INITIAL", error |-> "none", isProcessing |-> FALSE,
      generatedPdfInfo |-> Null, scannedPages |-> << >>,
      capturedImage |-> Null, corners |-> Null, draggingCorner |-> "none",
      croppedImage |-> Null, activeFilter |-> "normal", previewUrl |-> Null,
      isPreviewLoading |-> FALSE, streamRef |-> 0, videoSrc |-> 0,
      liveStreams |-> 0, camRequests |-> 0, requestCount |-> 0,
      captureCount |-> 0, detectTasks |-> {}, cropTasks |-> {},
      filterTasks |-> EmptyBag, pdfTasks |-> {}, now |-> 0 ]

Init ==
    /\ mounted = TRUE
    /\ cvLoaded = FALSE
    /\ isCvReady = FALSE
    /\ viewState = "INITIAL"
    /\ error = "none"
    /\ isProcessing = FALSE
    /\ generatedPdfInfo = Null
    /\ scannedPages = << >>
    /\ capturedImage = Null
    /\ corners = Null
    /\ draggingCorner = "none"
    /\ croppedImage = Null
    /\ activeFilter = "normal"
    /\ previewUrl = Null
    /\ isPreviewLoading = FALSE
    /\ streamRef = 0
    /\ videoSrc = 0
    /\ liveStreams = 0
    /\ camRequests = 0
    /\ requestCount = 0
    /\ captureCount = 0
    /\ detectTasks = {}
    /\ cropTasks = {}
    /\ filterTasks = EmptyBag
    /\ pdfTasks = {}
    /\ now = 0

----------------------------------------------------------------------------
\* The scanner engine

\* The OpenCV script finishes loading.
OpenCvLoaded ==
    /\ ~cvLoaded
    /\ Commit([cur EXCEPT !.cvLoaded = TRUE])

\* One poll of checkCvReady that finds the engine.
checkCvReady ==
    /\ mounted /\ cvLoaded /\ ~isCvReady
    /\ Commit([cur EXCEPT !.isCvReady = TRUE])

----------------------------------------------------------------------------
\* Camera

StartScanner ==
    /\ ViewShown("INITIAL") /\ isCvReady
    /\ Commit([cur EXCEPT !.viewState = "SCANNING"])

StopScanner ==
    /\ ViewShown("SCANNING")
    /\ Commit([cur EXCEPT !.viewState = "INITIAL"])

\* A catch block that reports the failure and stays in the scanning view
startCameraFailedStays(s) == [s EXCEPT !.error = "camera"]

\* catch block of startCamera
startCameraFailed(s) ==
    [s EXCEPT !.error = "camera", !.viewState = "INITIAL"]

\* The continuation of startCamera when getUserMedia resolves with a stream.
\* With videoRef.current null the assignment of srcObject throws a TypeError
\* inside the try, before streamRef.current is written.  A stream that
\* streamRef.current held before stays live and is referenced no more.
startCameraResolved(s) ==
    LET got == [s EXCEPT !.camRequests = @ - 1,
                         !.liveStreams = @ + 1]
    IN  IF VideoMounted(s)
        THEN [got EXCEPT !.videoSrc = 1, !.streamRef = 1]
        ELSE startCameraFailed(got)

getUserMediaResolved ==
    /\ camRequests > 0
    /\ Commit(startCameraResolved(cur))

getUserMediaRejected ==
    /\ camRequests > 0
    /\ Commit(startCameraFailed([cur EXCEPT !.camRequests = @ - 1]))

\* The component is unmounted (the header's back button, handleCompress):
\* the cleanup effect stops the camera and the component's state is gone.
\* Continuations still pending find state setters that do nothing; only those
\* of startCamera touch anything else.
Unmount ==
    /\ mounted
    /\ \E s \in { stopCamera(cur) } :
          Assign([InitialState EXCEPT !.mounted = FALSE,
                                      !.cvLoaded = cvLoaded,
                                      !.liveStreams = s.liveStreams,
                                      !.camRequests = camRequests,
                                      !.requestCount = requestCount,
                                      !.captureCount = captureCount,
                                      !.now = now])

----------------------------------------------------------------------------
\* Frame acquisition

\* videoWidth x videoHeight: 0 x 0 until a stream is attached and its first
\* frame has arrived.
VideoDims(src) == IF src = 0 THEN { <<0, 0>> } ELSE VideoSizes \cup { <<0, 0>> }

CaptureSize(vw, vh) ==
    IF vw > vh
    THEN [width |-> MAX_DIMENSION, height |-> ScaleSide(vh, vw)]
    ELSE [width |-> ScaleSide(vw, vh), height |-> MAX_DIMENSION]

\* toDataURL of the temporary canvas; a NaN width makes the canvas 0 wide.
CaptureUrl(k, size) ==
    IF IsNaN(size.width) \/ IsNaN(size.height)
    THEN EmptyUrl
    ELSE [img |-> k, kind |-> "frame"]

handleCapture(s, vw, vh) ==
    LET size == CaptureSize(vw, vh)
        k == s.captureCount + 1
    IN  [s EXCEPT !.error = "none",
                  !.captureCount = k,
                  !.capturedImage = [id |-> k,
                                     dataUrl |-> CaptureUrl(k, size),
                                     width |-> size.width,
                                     height |-> size.height],
                  !.isProcessing = FALSE,
                  !.viewState = "EDITING"]

Capture ==
    /\ ViewShown("SCANNING") /\ ~isProcessing
    /\ \E d \in VideoDims(videoSrc) : Commit(handleCapture(cur, d[1], d[2]))

----------------------------------------------------------------------------
\* Boundary detection

\* A contour as the vision engine reports it: contourArea, the vertices of
\* approxPolyDP and isContourConvex.
Contour(a, pts, cvx) == [area |-> a, approx |-> pts, convex |-> cvx]

\* tl, bl, br, tr of the inner half of the frame
QuadInner(w, h) ==
    << Pt(w \div 4, h \div 4), Pt(w \div 4, (3 * h) \div 4),
       Pt((3 * w) \div 4, (3 * h) \div 4), Pt((3 * w) \div 4, h \div 4) >>

\* tr, tl, bl, br of a sheet seen at a slant that nearly fills the frame
QuadSheet(w, h) ==
    << Pt(w - 40, 40), Pt(40, 20), Pt(20, h - 20), Pt(w - 20, h - 40) >>

\* The contour lists findContours can deliver for a frame of w x h pixels.
ContourInputs(w, h) ==
    LET inner == Contour((w * h) \div 4, QuadInner(w, h), TRUE)
        sheet == Contour((w * h * 9) \div 10, QuadSheet(w, h), TRUE)
        speck == Contour((w * h) \div 20, QuadInner(w, h), TRUE)
        dent == Contour((w * h) \div 2, QuadSheet(w, h), FALSE)
        blob == Contour((w * h) \div 2, SubSeq(QuadInner(w, h), 1, 3), TRUE)
    IN  { << >>, << speck >>, << dent, blob >>, << sheet >>,
          << inner, sheet >>, << sheet, speck, inner >> }

\* A candidate loop without the convexity test
RECURSIVE BestContourAnyShape(_, _, _, _, _)
BestContourAnyShape(contours, i, minArea, maxArea, best) ==
    IF i > Len(contours) THEN best
    ELSE LET cnt == contours[i]
             take == /\ cnt.area > minArea
                     /\ Len(cnt.approx) = 4
                     /\ cnt.area > maxArea
         IN  IF take
             THEN BestContourAnyShape(contours, i + 1, minArea, cnt.area,
                                      cnt.approx)
             ELSE BestContourAnyShape(contours, i + 1, minArea, maxArea, best)

\* The candidate loop of findInitialCorners from contour i on: the approx of
\* the best contour, Null for none.
RECURSIVE BestContour(_, _, _, _, _)
BestContour(contours, i, minArea, maxArea, best) ==
    IF i > Len(contours) THEN best
    ELSE LET cnt == contours[i]
             take == /\ cnt.area > minArea
                     /\ Len(cnt.approx) = 4 /\ cnt.convex
                     /\ cnt.area > maxArea
         IN  IF take
             THEN BestContour(contours, i + 1, minArea, cnt.area, cnt.approx)
             ELSE BestContour(contours, i + 1, minArea, maxArea, best)

bestContourMat(contours, w, h) ==
    BestContour(contours, 1, Percent(w * h, MinAreaPercent), -1, Null)

\* Array.prototype.sort by the key field; the sort is stable.
RECURSIVE StableSort(_)
StableSort(seq) ==
    IF Len(seq) <= 1 THEN seq
    ELSE LET h == Head(seq)
             rest == StableSort(Tail(seq))
             n == Cardinality({ j \in 1..Len(rest) : rest[j].key < h.key })
         IN  SubSeq(rest, 1, n) \o << h >> \o SubSeq(rest, n + 1, Len(rest))

\* A classification that reads the difference order from the wrong end
ClassifyCornersSwapped(points) ==
    LET cornersBySum ==
            StableSort([ i \in 1..Len(points) |->
                         [key |-> points[i].x + points[i].y, val |-> points[i]] ])
        cornersByDiff ==
            StableSort([ i \in 1..Len(points) |->
                         [key |-> points[i].y - points[i].x, val |-> points[i]] ])
    IN  [ tl |-> cornersBySum[1].val, br |-> cornersBySum[4].val,
          tr |-> cornersByDiff[4].val, bl |-> cornersByDiff[1].val ]

ClassifyCorners(points) ==
    LET cornersBySum ==
            StableSort([ i \in 1..Len(points) |->
                         [key |-> points[i].x + points[i].y, val |-> points[i]] ])
        cornersByDiff ==
            StableSort([ i \in 1..Len(points) |->
                         [key |-> points[i].y - points[i].x, val |-> points[i]] ])
    IN  [ tl |-> cornersBySum[1].val, br |-> cornersBySum[4].val,
          tr |-> cornersByDiff[1].val, bl |-> cornersByDiff[4].val ]

\* The default rectangle of the else and catch branches
FallbackCorners(img) ==
    LET margin == Percent(img.width, MarginPercent)
    IN  [ tl |-> Pt(margin, margin),
          tr |-> Pt(Sub(img.width, margin), margin),
          bl |-> Pt(margin, Sub(img.height, margin)),
          br |-> Pt(Sub(img.width, margin), Sub(img.height, margin)) ]

\* finally block of findInitialCorners
findInitialCornersFinally(s, t) ==
    [s EXCEPT !.isProcessing = FALSE, !.detectTasks = @ \ {t}]

\* The try block after the image has loaded, for the contours found in it.
\* t is the capturedImage the callback closed over.
findInitialCornersTry(s, t, contours) ==
    LET best == bestContourMat(contours, t.width, t.height)
    IN  findInitialCornersFinally(
            [s EXCEPT !.corners = IF best # Null THEN ClassifyCorners(best)
                                  ELSE FallbackCorners(t)], t)

\* A catch block that only reports the failure
findInitialCornersCatchNoFallback(s, t) ==
    findInitialCornersFinally([s EXCEPT !.error = "detect"], t)

\* The catch block: the image failed to load or the engine threw.
findInitialCornersCatch(s, t) ==
    findInitialCornersFinally(
        [s EXCEPT !.error = "detect", !.corners = FallbackCorners(t)], t)

DetectionFound ==
    \E t \in detectTasks :
        /\ Loadable(t.dataUrl)
        /\ \E c \in ContourInputs(t.width, t.height) :
              /\ bestContourMat(c, t.width, t.height) # Null
              /\ Commit(findInitialCornersTry(cur, t, c))

DetectionNoQuad ==
    \E t \in detectTasks :
        /\ Loadable(t.dataUrl)
        /\ \E c \in ContourInputs(t.width, t.height) :
              /\ bestContourMat(c, t.width, t.height) = Null
              /\ Commit(findInitialCornersTry(cur, t, c))

DetectionThrew ==
    \E t \in detectTasks : Commit(findInitialCornersCatch(cur, t))

----------------------------------------------------------------------------
\* Interactive correction

Retake ==
    /\ ViewShown("EDITING") /\ ~isProcessing
    /\ Commit([cur EXCEPT !.viewState = "SCANNING"])

\* The handles are drawn when scaledCorners is non-null and nothing is
\* processing.
handlePointerDown(c) ==
    /\ ViewShown("EDITING")
    /\ corners # Null /\ capturedImage # Null /\ ~isProcessing
    /\ Commit([cur EXCEPT !.draggingCorner = c])

\* capturedImage.width / rect.width, for the frame shown at 1 / DisplayShrink
\* of its size
DisplayScale(side) == IF IsNaN(side) THEN NaN ELSE DisplayShrink

getPointerPosition(s, cx, cy) ==
    Pt(Mul(cx, DisplayScale(s.capturedImage.width)),
       Mul(cy, DisplayScale(s.capturedImage.height)))

\* An update that keeps the dragged corner's horizontal neighbour level with it
movedCornersCoupled(prev, c, pos) ==
    LET mate == [tl |-> "tr", tr |-> "tl", bl |-> "br", br |-> "bl"]
    IN  IF prev # Null
        THEN [prev EXCEPT ![c] = pos, ![mate[c]] = Pt(@.x, pos.y)]
        ELSE Null

movedCorners(prev, c, pos) ==
    IF prev # Null THEN [prev EXCEPT ![c] = pos] ELSE Null

\* A handler without the early return for no drag session: it moves the
\* corner grabbed last, here the top-left one
handlePointerMoveUnguarded(s, cx, cy) ==
    IF s.capturedImage = Null THEN s
    ELSE [s EXCEPT !.corners =
              movedCorners(@, IF s.draggingCorner = "none" THEN "tl"
                              ELSE s.draggingCorner,
                           getPointerPosition(s, cx, cy))]

\* Reading capturedImage!.width with capturedImage null throws out of the
\* handler before any state is set.
handlePointerMove(s, cx, cy) ==
    IF s.draggingCorner = "none" \/ s.capturedImage = Null THEN s
    ELSE [s EXCEPT !.corners =
              movedCorners(@, s.draggingCorner, getPointerPosition(s, cx, cy))]

PointerMove ==
    /\ ViewShown("EDITING")
    /\ \E p \in ClientPoints : Commit(handlePointerMove(cur, p[1], p[2]))

\* onMouseUp, onMouseLeave, onTouchEnd
handlePointerUp ==
    /\ ViewShown("EDITING")
    /\ Commit([cur EXCEPT !.draggingCorner = "none"])

----------------------------------------------------------------------------
\* Perspective normalization

\* Math.hypot, in whole pixels: the greatest r with r * r <= n
RECURSIVE Isqrt(_, _, _)
Isqrt(n, lo, hi) ==
    IF lo >= hi THEN lo
    ELSE LET mid == (lo + hi + 1) \div 2
         IN  IF mid * mid <= n THEN Isqrt(n, mid, hi)
             ELSE Isqrt(n, lo, mid - 1)

Abs(a) == IF a < 0 THEN -a ELSE a

hypot(a, b) ==
    IF IsNaN(a) \/ IsNaN(b) THEN NaN
    ELSE Isqrt(a * a + b * b, 0, Abs(a) + Abs(b))

\* The lesser of the two
MathMin(a, b) ==
    IF IsNaN(a) \/ IsNaN(b) THEN NaN ELSE IF a < b THEN a ELSE b

\* Math.max: NaN if either argument is
MathMax(a, b) ==
    IF IsNaN(a) \/ IsNaN(b) THEN NaN ELSE IF a > b THEN a ELSE b

maxWidth(c) ==
    LET widthA == hypot(Sub(c.br.x, c.bl.x), Sub(c.br.y, c.bl.y))
        widthB == hypot(Sub(c.tr.x, c.tl.x), Sub(c.tr.y, c.tl.y))
    IN  MathMax(widthA, widthB)

maxHeight(c) ==
    LET heightA == hypot(Sub(c.tr.x, c.br.x), Sub(c.tr.y, c.br.y))
        heightB == hypot(Sub(c.tl.x, c.bl.x), Sub(c.tl.y, c.bl.y))
    IN  MathMax(heightA, heightB)

srcTri(c) == << c.tl, c.tr, c.bl, c.br >>

dstTri(w, h) == << Pt(0, 0), Pt(w, 0), Pt(0, h), Pt(w, h) >>

CropUrl(t) == [img |-> t.img.id, kind |-> "crop"]

\* What a run does with the corners its closure holds once the frame has
\* loaded: the size of the output and the point pairs of the transform.
\* cv.Size keeps whole pixels.
perspectiveWarp(c) ==
    LET w == maxWidth(c)
        h == maxHeight(c)
    IN  [ dsize |-> [width |-> w, height |-> h],
          srcTri |-> srcTri(c), dstTri |-> dstTri(w, h) ]

cropRun(img, c) == [img |-> img, corners |-> c, warp |-> perspectiveWarp(c)]

\* handleApplyCrop up to its await
ApplyCrop ==
    /\ ViewShown("EDITING")
    /\ corners # Null /\ ~isProcessing
    /\ capturedImage # Null
    /\ Commit([cur EXCEPT !.isProcessing = TRUE,
                          !.cropTasks = @ \cup {cropRun(capturedImage,
                                                         corners)}])

handleApplyCropFinally(s, t) ==
    [s EXCEPT !.isProcessing = FALSE, !.cropTasks = @ \ {t}]

handleApplyCropTry(s, t) ==
    handleApplyCropFinally(
        [s EXCEPT !.croppedImage = [dataUrl |-> CropUrl(t)],
                  !.activeFilter = "normal",
                  !.viewState = "FILTERING",
                  !.capturedImage = Null,
                  !.corners = Null], t)

handleApplyCropCatch(s, t) ==
    handleApplyCropFinally([s EXCEPT !.error = "crop"], t)

\* The awaited promise has no onerror: it settles only when the frame decodes.
CropDone ==
    \E t \in cropTasks :
        /\ Loadable(t.img.dataUrl)
        /\ Commit(handleApplyCropTry(cur, t))

CropThrew ==
    \E t \in cropTasks :
        /\ Loadable(t.img.dataUrl)
        /\ Commit(handleApplyCropCatch(cur, t))

----------------------------------------------------------------------------
\* Filtering

FilterUrl(filter, url) == [url EXCEPT !.kind = filter]

\* applyFilter up to its await ('normal' has none)
applyFilter(s, filter) ==
    IF s.croppedImage = Null THEN s
    ELSE IF filter = "normal"
         THEN [s EXCEPT !.activeFilter = filter,
                        !.previewUrl = s.croppedImage.dataUrl]
         ELSE [s EXCEPT !.activeFilter = filter,
                        !.isPreviewLoading = TRUE,
                        !.filterTasks =
                            @ (+) SetToBag({[filter |-> filter,
                                             src |-> s.croppedImage]})]

\* The filter buttons are never disabled.  Only a selection that starts a
\* computation counts against the bound on computations in flight.
SelectFilter ==
    /\ ViewShown("FILTERING")
    /\ \E f \in FilterType :
          /\ f = "normal" \/ BagCardinality(filterTasks) < MaxFilterTasks
          /\ Commit(applyFilter(cur, f))

applyFilterFinally(s, t) ==
    [s EXCEPT !.isPreviewLoading = FALSE,
              !.filterTasks = @ (-) SetToBag({t})]

\* A filter that writes its result over the cropped page
applyFilterTryInPlace(s, t) ==
    applyFilterFinally(
        [s EXCEPT !.previewUrl = FilterUrl(t.filter, t.src.dataUrl),
                  !.croppedImage = [dataUrl |->
                                        FilterUrl(t.filter, t.src.dataUrl)]],
        t)

applyFilterTry(s, t) ==
    applyFilterFinally(
        [s EXCEPT !.previewUrl = FilterUrl(t.filter, t.src.dataUrl)], t)

\* A catch block that blanks the preview
applyFilterCatchBlank(s, t) ==
    applyFilterFinally([s EXCEPT !.error = "filter", !.previewUrl = Null], t)

applyFilterCatch(s, t) ==
    applyFilterFinally([s EXCEPT !.error = "filter"], t)

FilterDone ==
    \E t \in BagToSet(filterTasks) :
        /\ Loadable(t.src.dataUrl)
        /\ Commit(applyFilterTry(cur, t))

FilterThrew ==
    \E t \in BagToSet(filterTasks) :
        /\ Loadable(t.src.dataUrl)
        /\ Commit(applyFilterCatch(cur, t))

Discard ==
    /\ ViewShown("FILTERING") /\ ~isPreviewLoading
    /\ Commit([cur EXCEPT !.croppedImage = Null,
                          !.previewUrl = Null,
                          !.viewState = "SCANNING"])

----------------------------------------------------------------------------
\* Page finalization and PDF assembly

\* An accept that puts the new page in front of the list
handleAddFinalPageInFront ==
    /\ ViewShown("FILTERING")
    /\ previewUrl # Null /\ ~isPreviewLoading
    /\ \E t \in (IF scannedPages = << >> THEN {now + 1} ELSE {now, now + 1}) :
          Commit([cur EXCEPT !.now = t,
                             !.scannedPages =
                                 << [id |-> t, dataUrl |-> previewUrl] >> \o @,
                             !.croppedImage = Null,
                             !.previewUrl = Null,
                             !.viewState = "SCANNING"])

\* Date.now() never runs backwards: it reads a later millisecond than the
\* last reading, or the same one.  The same one matters only while a page
\* that may carry it is in the list.
handleAddFinalPage ==
    /\ ViewShown("FILTERING")
    /\ previewUrl # Null /\ ~isPreviewLoading
    /\ \E t \in (IF scannedPages = << >> THEN {now + 1} ELSE {now, now + 1}) :
          Commit([cur EXCEPT !.now = t,
                             !.scannedPages =
                                 Append(@, [id |-> t, dataUrl |-> previewUrl]),
                             !.croppedImage = Null,
                             !.previewUrl = Null,
                             !.viewState = "SCANNING"])

removePage(id) ==
    /\ ViewShown("SCANNING")
    /\ \E i \in 1..Len(scannedPages) : scannedPages[i].id = id
    /\ Commit([cur EXCEPT !.scannedPages =
                              SelectSeq(@, LAMBDA img : img.id # id)])

\* createPdf up to its first await
createPdfHandler(s) ==
    IF Len(s.scannedPages) = 0 THEN [s EXCEPT !.error = "empty"]
    ELSE [s EXCEPT !.isProcessing = TRUE,
                   !.error = "none",
                   !.pdfTasks = @ \cup {s.scannedPages}]

\* The Create PDF button is disabled for an empty list and while processing.
createPdf ==
    /\ ViewShown("SCANNING")
    /\ Len(scannedPages) > 0 /\ ~isProcessing
    /\ Commit(createPdfHandler(cur))

createPdfFinally(s, t) ==
    [s EXCEPT !.isProcessing = FALSE, !.pdfTasks = @ \ {t}]

\* A loop that puts each new page in front of the pages added before it
RECURSIVE addPageInFront(_)
addPageInFront(pages) ==
    IF pages = << >> THEN << >>
    ELSE addPageInFront(Tail(pages)) \o << Head(pages).dataUrl >>

\* The loop over the pages the call closed over: one PDF page per image, each
\* added after the pages before it
RECURSIVE addPage(_)
addPage(pages) ==
    IF pages = << >> THEN << >>
    ELSE << Head(pages).dataUrl >> \o addPage(Tail(pages))

CreatePdfDone ==
    \E t \in pdfTasks :
        Commit(createPdfFinally(
            [cur EXCEPT !.generatedPdfInfo = [pages |-> addPage(t)],
                        !.scannedPages = << >>], t))

CreatePdfThrew ==
    \E t \in pdfTasks :
        Commit(createPdfFinally([cur EXCEPT !.error = "pdf"], t))

resetScanner ==
    /\ mounted /\ generatedPdfInfo # Null
    /\ Commit([cur EXCEPT !.generatedPdfInfo = Null,
                          !.scannedPages = << >>,
                          !.capturedImage = Null,
                          !.corners = Null,
                          !.error = "none",
                          !.viewState = "INITIAL"])

----------------------------------------------------------------------------

Next ==
    \/ OpenCvLoaded
    \/ checkCvReady
    \/ StartScanner
    \/ StopScanner
    \/ getUserMediaResolved
    \/ getUserMediaRejected
    \/ Unmount
    \/ Capture
    \/ DetectionFound
    \/ DetectionNoQuad
    \/ DetectionThrew
    \/ Retake
    \/ \E c \in Handles : handlePointerDown(c)
    \/ PointerMove
    \/ handlePointerUp
    \/ ApplyCrop
    \/ CropDone
    \/ CropThrew
    \/ SelectFilter
    \/ FilterDone
    \/ FilterThrew
    \/ Discard
    \/ handleAddFinalPage
    \/ \E id \in 0..now : removePage(id)
    \/ createPdf
    \/ CreatePdfDone
    \/ CreatePdfThrew
    \/ resetScanner

Spec == Init /\ [][Next]_vars

----------------------------------------------------------------------------
\* The editing stage on its own: one frame has been captured and its sheet
\* detected; the user drags any of the four handles and applies the crop.

EditPoints == { <<-5, 150>>, <<200, 100>> }

EditingFrame ==
    [ id |-> 1, dataUrl |-> [img |-> 1, kind |-> "frame"],
      width |-> 1280, height |-> 720 ]

EditingState ==
    [InitialState EXCEPT !.cvLoaded = TRUE, !.isCvReady = TRUE,
                         !.viewState = "EDITING",
                         !.capturedImage = EditingFrame,
                         !.corners = ClassifyCorners(QuadSheet(1280, 720)),
                         !.requestCount = 1, !.captureCount = 1]

InitEdit ==
    /\ mounted = EditingState.mounted
    /\ cvLoaded = EditingState.cvLoaded
    /\ isCvReady = EditingState.isCvReady
    /\ viewState = EditingState.viewState
    /\ error = EditingState.error
    /\ isProcessing = EditingState.isProcessing
    /\ generatedPdfInfo = EditingState.generatedPdfInfo
    /\ scannedPages = EditingState.scannedPages
    /\ capturedImage = EditingState.capturedImage
    /\ corners = EditingState.corners
    /\ draggingCorner = EditingState.draggingCorner
    /\ croppedImage = EditingState.croppedImage
    /\ activeFilter = EditingState.activeFilter
    /\ previewUrl = EditingState.previewUrl
    /\ isPreviewLoading = EditingState.isPreviewLoading
    /\ streamRef = EditingState.streamRef
    /\ videoSrc = EditingState.videoSrc
    /\ liveStreams = EditingState.liveStreams
    /\ camRequests = EditingState.camRequests
    /\ requestCount = EditingState.requestCount
    /\ captureCount = EditingState.captureCount
    /\ detectTasks = EditingState.detectTasks
    /\ cropTasks = EditingState.cropTasks
    /\ filterTasks = EditingState.filterTasks
    /\ pdfTasks = EditingState.pdfTasks
    /\ now = EditingState.now

PointerMoveTo ==
    /\ ViewShown("EDITING")
    /\ \E p \in EditPoints : Commit(handlePointerMove(cur, p[1], p[2]))

NextEdit ==
    \/ \E c \in Corner : handlePointerDown(c)
    \/ PointerMoveTo
    \/ handlePointerUp
    \/ ApplyCrop
    \/ CropDone
    \/ CropThrew

SpecEdit == InitEdit /\ [][NextEdit]_vars

----------------------------------------------------------------------------
\* The session from its second page on: one page has been accepted and the
\* scanning view has just asked for the camera again.
\* The user takes the corners as detection sets them.

PagesState ==
    [InitialState EXCEPT !.cvLoaded = TRUE, !.isCvReady = TRUE,
                         !.viewState = "SCANNING",
                         !.scannedPages =
                             << [id |-> 1,
                                 dataUrl |-> [img |-> 1, kind |-> "crop"]] >>,
                         !.camRequests = 1, !.requestCount = 1,
                         !.captureCount = 1, !.now = 1]

InitPages ==
    /\ mounted = PagesState.mounted
    /\ cvLoaded = PagesState.cvLoaded
    /\ isCvReady = PagesState.isCvReady
    /\ viewState = PagesState.viewState
    /\ error = PagesState.error
    /\ isProcessing = PagesState.isProcessing
    /\ generatedPdfInfo = PagesState.generatedPdfInfo
    /\ scannedPages = PagesState.scannedPages
    /\ capturedImage = PagesState.capturedImage
    /\ corners = PagesState.corners
    /\ draggingCorner = PagesState.draggingCorner
    /\ croppedImage = PagesState.croppedImage
    /\ activeFilter = PagesState.activeFilter
    /\ previewUrl = PagesState.previewUrl
    /\ isPreviewLoading = PagesState.isPreviewLoading
    /\ streamRef = PagesState.streamRef
    /\ videoSrc = PagesState.videoSrc
    /\ liveStreams = PagesState.liveStreams
    /\ camRequests = PagesState.camRequests
    /\ requestCount = PagesState.requestCount
    /\ captureCount = PagesState.captureCount
    /\ detectTasks = PagesState.detectTasks
    /\ cropTasks = PagesState.cropTasks
    /\ filterTasks = PagesState.filterTasks
    /\ pdfTasks = PagesState.pdfTasks
    /\ now = PagesState.now

NextPages ==
    \/ StartScanner
    \/ StopScanner
    \/ getUserMediaResolved
    \/ getUserMediaRejected
    \/ Unmount
    \/ Capture
    \/ DetectionFound
    \/ DetectionNoQuad
    \/ DetectionThrew
    \/ Retake
    \/ ApplyCrop
    \/ CropDone
    \/ CropThrew
    \/ SelectFilter
    \/ FilterDone
    \/ FilterThrew
    \/ Discard
    \/ handleAddFinalPage
    \/ \E id \in 0..now : removePage(id)
    \/ createPdf
    \/ CreatePdfDone
    \/ CreatePdfThrew
    \/ resetScanner

SpecPages == InitPages /\ [][NextPages]_vars

----------------------------------------------------------------------------
\* The detection stage on its own: one frame of 1280 x 720 has been captured
\* and its detection run is in flight.  The engine reports any convex
\* quadrilateral whose vertices lie on a 3 x 3 lattice of the frame, in any
\* vertex order, and some outlines that are not convex.

GridPoints == { Pt(x, y) : x \in {0, 640, 1280}, y \in {0, 360, 720} }

Cross(o, a, b) == (a.x - o.x) * (b.y - o.y) - (a.y - o.y) * (b.x - o.x)

\* cv.isContourConvex: every turn of the outline has the same direction
isContourConvex(q) ==
    LET n == Len(q)
        turn(i) == Cross(q[i], q[(i % n) + 1], q[((i + 1) % n) + 1])
    IN  \/ \A i \in 1..n : turn(i) > 0
        \/ \A i \in 1..n : turn(i) < 0

\* Every convex quadrilateral with its vertices on the lattice, in every
\* order approxPolyDP can list them
GridQuads == { q \in [1..4 -> GridPoints] : isContourConvex(q) }

\* cv.contourArea of the outline: the shoelace formula
contourArea(q) ==
    LET n == Len(q)
        term(i) == q[i].x * q[(i % n) + 1].y - q[(i % n) + 1].x * q[i].y
        twice == term(1) + term(2) + term(3) + term(4)
    IN  (IF twice < 0 THEN -twice ELSE twice) \div 2

GridContour(q) == Contour(contourArea(q), q, isContourConvex(q))

\* The left half of the frame, the whole frame, a diamond, a bow tie
PairQuads ==
    { << Pt(0, 0), Pt(640, 0), Pt(640, 720), Pt(0, 720) >>,
      << Pt(1280, 0), Pt(1280, 720), Pt(0, 720), Pt(0, 0) >>,
      << Pt(640, 0), Pt(1280, 360), Pt(640, 720), Pt(0, 360) >>,
      << Pt(0, 0), Pt(1280, 720), Pt(1280, 0), Pt(0, 720) >> }

GridContourLists ==
    { << GridContour(q) >> : q \in GridQuads }
        \cup { << GridContour(p), GridContour(q) >> : p, q \in PairQuads }
        \cup ContourInputs(1280, 720)

DetectingState ==
    [InitialState EXCEPT !.cvLoaded = TRUE, !.isCvReady = TRUE,
                         !.viewState = "EDITING",
                         !.capturedImage = EditingFrame,
                         !.isProcessing = TRUE,
                         !.detectTasks = {EditingFrame},
                         !.requestCount = 1, !.captureCount = 1]

InitDetect ==
    /\ mounted = DetectingState.mounted
    /\ cvLoaded = DetectingState.cvLoaded
    /\ isCvReady = DetectingState.isCvReady
    /\ viewState = DetectingState.viewState
    /\ error = DetectingState.error
    /\ isProcessing = DetectingState.isProcessing
    /\ generatedPdfInfo = DetectingState.generatedPdfInfo
    /\ scannedPages = DetectingState.scannedPages
    /\ capturedImage = DetectingState.capturedImage
    /\ corners = DetectingState.corners
    /\ draggingCorner = DetectingState.draggingCorner
    /\ croppedImage = DetectingState.croppedImage
    /\ activeFilter = DetectingState.activeFilter
    /\ previewUrl = DetectingState.previewUrl
    /\ isPreviewLoading = DetectingState.isPreviewLoading
    /\ streamRef = DetectingState.streamRef
    /\ videoSrc = DetectingState.videoSrc
    /\ liveStreams = DetectingState.liveStreams
    /\ camRequests = DetectingState.camRequests
    /\ requestCount = DetectingState.requestCount
    /\ captureCount = DetectingState.captureCount
    /\ detectTasks = DetectingState.detectTasks
    /\ cropTasks = DetectingState.cropTasks
    /\ filterTasks = DetectingState.filterTasks
    /\ pdfTasks = DetectingState.pdfTasks
    /\ now = DetectingState.now

DetectionOnGrid ==
    \E t \in detectTasks :
        /\ Loadable(t.dataUrl)
        /\ \E c \in GridContourLists : Commit(findInitialCornersTry(cur, t, c))

NextDetect ==
    \/ DetectionOnGrid
    \/ DetectionThrew
    \/ Retake

SpecDetect == InitDetect /\ [][NextDetect]_vars

----------------------------------------------------------------------------
\* The capture stage on its own: the scanner has been started and the camera
\* is streaming.  The camera delivers any of a range of frame sizes, smaller
\* and larger than MAX_DIMENSION, in both orientations.

CameraSides == {320, 640, 1280, 2560}

CameraSizes == CameraSides \X CameraSides

ScanningState ==
    [InitialState EXCEPT !.cvLoaded = TRUE, !.isCvReady = TRUE,
                         !.viewState = "SCANNING",
                         !.streamRef = 1, !.videoSrc = 1, !.liveStreams = 1,
                         !.requestCount = 1]

InitCapture ==
    /\ mounted = ScanningState.mounted
    /\ cvLoaded = ScanningState.cvLoaded
    /\ isCvReady = ScanningState.isCvReady
    /\ viewState = ScanningState.viewState
    /\ error = ScanningState.error
    /\ isProcessing = ScanningState.isProcessing
    /\ generatedPdfInfo = ScanningState.generatedPdfInfo
    /\ scannedPages = ScanningState.scannedPages
    /\ capturedImage = ScanningState.capturedImage
    /\ corners = ScanningState.corners
    /\ draggingCorner = ScanningState.draggingCorner
    /\ croppedImage = ScanningState.croppedImage
    /\ activeFilter = ScanningState.activeFilter
    /\ previewUrl = ScanningState.previewUrl
    /\ isPreviewLoading = ScanningState.isPreviewLoading
    /\ streamRef = ScanningState.streamRef
    /\ videoSrc = ScanningState.videoSrc
    /\ liveStreams = ScanningState.liveStreams
    /\ camRequests = ScanningState.camRequests
    /\ requestCount = ScanningState.requestCount
    /\ captureCount = ScanningState.captureCount
    /\ detectTasks = ScanningState.detectTasks
    /\ cropTasks = ScanningState.cropTasks
    /\ filterTasks = ScanningState.filterTasks
    /\ pdfTasks = ScanningState.pdfTasks
    /\ now = ScanningState.now

CaptureFrom ==
    /\ ViewShown("SCANNING") /\ ~isProcessing /\ videoSrc # 0
    /\ \E d \in CameraSizes : Commit(handleCapture(cur, d[1], d[2]))

NextCapture ==
    \/ CaptureFrom
    \/ DetectionFound
    \/ DetectionNoQuad
    \/ DetectionThrew
    \/ Retake
    \/ getUserMediaResolved
    \/ getUserMediaRejected

SpecCapture == InitCapture /\ [][NextCapture]_vars

----------------------------------------------------------------------------
\* The filtering stage on its own: a frame has been cropped and the cropped
\* page is shown unfiltered.  The user may pick a filter while the
\* computation of the one picked before is still running.

FilteringState ==
    [InitialState EXCEPT !.cvLoaded = TRUE, !.isCvReady = TRUE,
                         !.viewState = "FILTERING",
                         !.croppedImage =
                             [dataUrl |-> [img |-> 1, kind |-> "crop"]],
                         !.previewUrl = [img |-> 1, kind |-> "crop"],
                         !.requestCount = 1, !.captureCount = 1]

InitFilter ==
    /\ mounted = FilteringState.mounted
    /\ cvLoaded = FilteringState.cvLoaded
    /\ isCvReady = FilteringState.isCvReady
    /\ viewState = FilteringState.viewState
    /\ error = FilteringState.error
    /\ isProcessing = FilteringState.isProcessing
    /\ generatedPdfInfo = FilteringState.generatedPdfInfo
    /\ scannedPages = FilteringState.scannedPages
    /\ capturedImage = FilteringState.capturedImage
    /\ corners = FilteringState.corners
    /\ draggingCorner = FilteringState.draggingCorner
    /\ croppedImage = FilteringState.croppedImage
    /\ activeFilter = FilteringState.activeFilter
    /\ previewUrl = FilteringState.previewUrl
    /\ isPreviewLoading = FilteringState.isPreviewLoading
    /\ streamRef = FilteringState.streamRef
    /\ videoSrc = FilteringState.videoSrc
    /\ liveStreams = FilteringState.liveStreams
    /\ camRequests = FilteringState.camRequests
    /\ requestCount = FilteringState.requestCount
    /\ captureCount = FilteringState.captureCount
    /\ detectTasks = FilteringState.detectTasks
    /\ cropTasks = FilteringState.cropTasks
    /\ filterTasks = FilteringState.filterTasks
    /\ pdfTasks = FilteringState.pdfTasks
    /\ now = FilteringState.now

SelectFilterAgain ==
    /\ ViewShown("FILTERING")
    /\ \E f \in FilterType :
          /\ f = "normal" \/ BagCardinality(filterTasks) <= MaxFilterTasks
          /\ Commit(applyFilter(cur, f))

NextFilter ==
    \/ SelectFilterAgain
    \/ FilterDone
    \/ FilterThrew
    \/ Discard
    \/ handleAddFinalPage
    \/ getUserMediaResolved
    \/ getUserMediaRejected

SpecFilter == InitFilter /\ [][NextFilter]_vars

----------------------------------------------------------------------------
\* The browser's event loop: a promise that can settle does settle, and the
\* continuation awaiting it runs.  A detection run can end whenever it is in
\* flight (its image load settles either way), so it ends, with or without a
\* quadrilateral.

Fairness ==
    /\ WF_vars(getUserMediaResolved \/ getUserMediaRejected)
    /\ WF_vars(DetectionNoQuad \/ DetectionThrew)
    /\ WF_vars(CropDone \/ CropThrew)
    /\ WF_vars(FilterDone \/ FilterThrew)
    /\ WF_vars(CreatePdfDone \/ CreatePdfThrew)

FairSpec == Spec /\ Fairness

----------------------------------------------------------------------------
\* Properties

\* C1: outside the scanning stage no live camera stream is held: whenever
\* viewState is INITIAL, EDITING or FILTERING every stream handed out by
\* getUserMedia has had its tracks stopped.
C1_NoStreamOutsideScanning ==
    (mounted /\ viewState # "SCANNING") => liveStreams = 0

\* C2: at most one camera stream is live at any time, and a live stream is
\* the one streamRef.current records.
C2_SingleOwnedStream ==
    liveStreams <= 1 /\ liveStreams = streamRef

\* C3: no CapturedFrame with zero or NaN dimensions exists: a capture from a
\* video that has produced no frame is rejected.
C3_NoDegenerateFrame ==
    capturedImage # Null =>
        /\ ~IsNaN(capturedImage.width) /\ capturedImage.width > 0
        /\ ~IsNaN(capturedImage.height) /\ capturedImage.height > 0

\* A findInitialCorners run of the mounted component ends in this step.
DetectionEnds ==
    mounted' /\ detectTasks' # detectTasks /\ detectTasks' \subseteq detectTasks

\* C4: every run of findInitialCorners ends with corners non-null, whether a
\* quadrilateral was found, none survived or the image load or engine failed.
C4_DetectionYieldsCorners ==
    [][DetectionEnds => corners' # Null]_vars

\* A detection run has ended in the catch block with the fallback rectangle.
C4_Witness ==
    /\ viewState = "EDITING" /\ detectTasks = {} /\ ~isProcessing
    /\ capturedImage # Null /\ error = "detect"
    /\ corners = FallbackCorners(capturedImage)

\* The rectangle inset by 5% of the width horizontally and 5% of the height
\* vertically.
InsetRectangle(w, h) ==
    [ tl |-> Pt(Percent(w, 5), Percent(h, 5)),
      tr |-> Pt(w - Percent(w, 5), Percent(h, 5)),
      bl |-> Pt(Percent(w, 5), h - Percent(h, 5)),
      br |-> Pt(w - Percent(w, 5), h - Percent(h, 5)) ]

\* A detection run of the mounted component ends with the fallback rectangle.
DetectionFallsBack == mounted /\ (DetectionNoQuad \/ DetectionThrew)

\* C5: the fallback CornerSet of a w x h frame is tl = (0.05w, 0.05h),
\* tr = (0.95w, 0.05h), bl = (0.05w, 0.95h), br = (0.95w, 0.95h).
C5_FallbackInsetByWidthAndHeight ==
    [][DetectionFallsBack =>
          \A t \in detectTasks \ detectTasks' :
              (~IsNaN(t.width) /\ ~IsNaN(t.height)) =>
                  corners' = InsetRectangle(t.width, t.height)]_vars

\* C6: a detection run that ends with the fallback rectangle leaves a warning
\* in error, also when no 4-vertex convex contour survived.
C6_FallbackWarns ==
    [][DetectionFallsBack => error' # "none"]_vars

\* The preview the filter produces from the cropped page
ExpectedPreview(filter, url) ==
    IF filter = "normal" THEN url ELSE FilterUrl(filter, url)

\* C7: last committed filter wins: once no filter computation is in flight
\* (and none has failed), the preview is the active filter applied to the
\* cropped page.
C7_LastFilterWins ==
    ( /\ mounted /\ viewState = "FILTERING" /\ croppedImage # Null
      /\ filterTasks = EmptyBag /\ error # "filter" )
    => previewUrl = ExpectedPreview(activeFilter, croppedImage.dataUrl)

\* C8: a detection completion sets corners only for the frame that is still
\* the current capturedImage, with viewState still EDITING, and no other
\* detection run is in flight.
C8_NoStaleDetection ==
    [][DetectionEnds =>
          /\ viewState = "EDITING"
          /\ Cardinality(detectTasks) = 1
          /\ \A t \in detectTasks \ detectTasks' : capturedImage = t]_vars

\* C9: a pointer-move changes no corner but the one being dragged, and leaves
\* capturedImage, croppedImage, viewState and the page list alone.
C9_MoveChangesOnlyDraggedCorner ==
    [][PointerMove =>
          /\ (corners = Null) = (corners' = Null)
          /\ corners # Null =>
                \A c \in Corner \ {draggingCorner} : corners'[c] = corners[c]
          /\ UNCHANGED << capturedImage, croppedImage, viewState,
                          scannedPages >>]_vars

\* A drag of the top-left handle has moved that corner and no other.
C9_Witness ==
    /\ viewState = "EDITING" /\ draggingCorner = "tl"
    /\ capturedImage # Null /\ corners # Null
    /\ corners.tl \in { getPointerPosition(cur, p[1], p[2]) : p \in ClientPoints }
    /\ corners.br = ClassifyCorners(QuadSheet(capturedImage.width,
                                              capturedImage.height)).br

\* C10: pointer-up (or pointer-leave) ends the drag session, a pointer-move
\* without a drag session changes no corner, and a session begins only with
\* a pointer-down on a handle.
C10_DragSessionEndsOnPointerUp ==
    [][ /\ handlePointerUp => draggingCorner' = "none"
        /\ (PointerMove /\ draggingCorner = "none") => corners' = corners
        /\ (mounted' /\ draggingCorner' # draggingCorner
                     /\ draggingCorner' # "none")
              => \E c \in Corner : handlePointerDown(c) ]_vars

\* A drag has moved the top-left corner and has ended.
C10_Witness ==
    /\ viewState = "EDITING" /\ draggingCorner = "none"
    /\ capturedImage # Null /\ corners # Null
    /\ corners.tl \in { getPointerPosition(cur, p[1], p[2]) : p \in ClientPoints }

\* C11: whenever corners is non-null, all four points lie within the frame:
\* 0 <= x <= width and 0 <= y <= height, also after drags to pointer
\* positions outside the displayed image.
C11_CornersWithinFrame ==
    ( /\ capturedImage # Null /\ corners # Null
      /\ ~IsNaN(capturedImage.width) /\ ~IsNaN(capturedImage.height) )
    => \A c \in Corner :
          /\ 0 <= corners[c].x /\ corners[c].x <= capturedImage.width
          /\ 0 <= corners[c].y /\ corners[c].y <= capturedImage.height

\* The squared Euclidean distance of two points
SqDist(a, b) == (a.x - b.x) * (a.x - b.x) + (a.y - b.y) * (a.y - b.y)

Longer(a, b) == IF a >= b THEN a ELSE b

\* len is the whole-pixel length of an edge whose squared length is sq.
WithinAPixel(len, sq) == len * len <= sq /\ sq < (len + 1) * (len + 1)

\* C12: the crop sizes its output from the committed corners: width is the
\* greater of the top edge |tr-tl| and the bottom edge |br-bl|, height the
\* greater of the left edge |bl-tl| and the right edge |br-tr|, within a
\* pixel; and tl, tr, bl, br are mapped to (0,0), (w,0), (0,h), (w,h).
C12_CropSizedByLongerEdges ==
    \A t \in cropTasks :
        LET c == t.corners
            w == t.warp.dsize.width
            h == t.warp.dsize.height
        IN  /\ WithinAPixel(w, Longer(SqDist(c.tr, c.tl), SqDist(c.br, c.bl)))
            /\ WithinAPixel(h, Longer(SqDist(c.bl, c.tl), SqDist(c.br, c.tr)))
            /\ t.warp.srcTri = << c.tl, c.tr, c.bl, c.br >>
            /\ t.warp.dstTri = << Pt(0, 0), Pt(w, 0), Pt(0, h), Pt(w, h) >>

\* A crop runs on a dragged quadrilateral whose opposite edges differ.
C12_Witness ==
    /\ isProcessing
    /\ \E t \in cropTasks :
          /\ t.corners.tl = Pt(400, 200) /\ t.corners.bl = Pt(-10, 300)
          /\ SqDist(t.corners.tr, t.corners.tl)
                 # SqDist(t.corners.br, t.corners.bl)
          /\ t.warp.dsize.width > 1 /\ t.warp.dsize.height > 1

\* C13: a crop of a degenerate CornerSet clamps its output to at least one
\* pixel by one pixel.
C13_CropClampedToOnePixel ==
    \A t \in cropTasks :
        t.warp.dsize.width >= 1 /\ t.warp.dsize.height >= 1

\* C14: filtering never changes the retained cropped page: on entering
\* FILTERING the preview is the cropped page with filter 'normal'; no
\* selection or completion of a filter, succeeding or failing, changes
\* croppedImage; and selecting 'normal' sets the preview to the cropped page.
C14_CroppedPageRetained ==
    [][ /\ (mounted' /\ viewState # "FILTERING" /\ viewState' = "FILTERING")
              => /\ croppedImage' # Null
                 /\ previewUrl' = croppedImage'.dataUrl
                 /\ activeFilter' = "normal"
        /\ (SelectFilter \/ FilterDone \/ FilterThrew)
              => croppedImage' = croppedImage
        /\ (SelectFilter /\ croppedImage # Null /\ activeFilter' = "normal")
              => previewUrl' = croppedImage.dataUrl
        /\ croppedImage' # Null => croppedImage'.dataUrl.kind = "crop" ]_vars

\* The 'bw' filter has completed: the preview is the filtered page and the
\* cropped page is the unfiltered one.
C14_Witness ==
    /\ viewState = "FILTERING" /\ croppedImage # Null
    /\ activeFilter = "bw" /\ filterTasks = EmptyBag /\ ~isPreviewLoading
    /\ previewUrl = FilterUrl("bw", croppedImage.dataUrl)
    /\ croppedImage.dataUrl.kind = "crop"

C18_CameraFailureReturnsToInitial ==
    [][(mounted /\ getUserMediaRejected) =>
          /\ error' = "camera"
          /\ viewState' = "INITIAL"
          /\ streamRef' = 0
          /\ scannedPages' = scannedPages
          /\ isCvReady']_vars

\* The camera request issued on returning from an accepted page was refused.
C18_Witness ==
    /\ mounted /\ viewState = "INITIAL" /\ error = "camera"
    /\ Len(scannedPages) = 1 /\ generatedPdfInfo = Null
    /\ streamRef = 0 /\ liveStreams = 0 /\ camRequests = 0

\* C19: Retake destroys the frame in progress: afterwards capturedImage and
\* corners are both null.
C19_RetakeDestroysFrame ==
    [][Retake => (capturedImage' = Null /\ corners' = Null)]_vars

\* C16: accepting a page appends exactly one page, holding the current
\* preview, at the end of the list, leaves the earlier pages and their order
\* alone, and leaves capturedImage, corners, croppedImage and previewUrl
\* null with viewState SCANNING.
C16_AcceptAppendsOnePage ==
    [][handleAddFinalPage =>
          /\ Len(scannedPages') = Len(scannedPages) + 1
          /\ SubSeq(scannedPages', 1, Len(scannedPages)) = scannedPages
          /\ scannedPages'[Len(scannedPages')].dataUrl = previewUrl
          /\ capturedImage' = Null /\ corners' = Null
          /\ croppedImage' = Null /\ previewUrl' = Null
          /\ viewState' = "SCANNING"]_vars

\* A second, filtered page has been accepted after the first.
C16_Witness ==
    /\ viewState = "SCANNING" /\ Len(scannedPages) = 2
    /\ scannedPages[1].dataUrl = [img |-> 1, kind |-> "crop"]
    /\ scannedPages[2].dataUrl = [img |-> 2, kind |-> "bw"]
    /\ capturedImage = Null /\ corners = Null
    /\ croppedImage = Null /\ previewUrl = Null

\* C17: deleting a page by id removes exactly one entry, whatever ids
\* Date.now() gave the pages when they were accepted.
C17_RemoveExactlyOnePage ==
    [][(\E id \in 0..now : removePage(id)) =>
          Len(scannedPages') = Len(scannedPages) - 1]_vars

\* C20: the pipeline never gets stuck: every started capture, detection,
\* crop or PDF operation eventually finishes, so that isProcessing
\* eventually becomes false again.
C20_ProcessingEventuallyEnds ==
    isProcessing ~> ~isProcessing

Vertices(q) == { q[i] : i \in 1..Len(q) }

\* The run of detection that gets the contour list c from the engine
DetectsList(c) ==
    \E t \in detectTasks :
        /\ corners' = findInitialCornersTry(cur, t, c).corners
        /\ Commit(findInitialCornersTry(cur, t, c))

\* The run of detection that finds the single quadrilateral q in the frame
DetectsQuad(q) ==
    /\ DetectsList(<< GridContour(q) >>)
    /\ bestContourMat(<< GridContour(q) >>, 1280, 720) # Null

\* c gives each role to a vertex of q that is extreme in the role's measure
RolesByExtremes(c, q) ==
    /\ {c.tl, c.tr, c.br, c.bl} \subseteq Vertices(q)
    /\ \A v \in Vertices(q) :
          /\ c.tl.x + c.tl.y <= v.x + v.y
          /\ c.br.x + c.br.y >= v.x + v.y
          /\ c.tr.y - c.tr.x <= v.y - v.x
          /\ c.bl.y - c.bl.x >= v.y - v.x

\* C21: when detection finds a quadrilateral, the corner roles it stores are
\* taken from its four vertices: top-left has the least x + y, bottom-right
\* the greatest x + y, top-right the least y - x and bottom-left the greatest
\* y - x, whatever the order the vertices were reported in.
C21_RolesBySumAndDifference ==
    [][\A q \in GridQuads : DetectsQuad(q) => RolesByExtremes(corners', q)]_vars

\* A sheet seen at a slant has been detected and classified.
C21_Witness ==
    /\ viewState = "EDITING" /\ ~isProcessing /\ error = "none"
    /\ corners = [ tl |-> Pt(0, 0), tr |-> Pt(640, 0),
                   br |-> Pt(1280, 720), bl |-> Pt(0, 360) ]

\* The contours of c that pass the three tests for a frame of w x h pixels
Candidates(c, w, h) ==
    { i \in 1..Len(c) : /\ c[i].area * 10 > w * h
                        /\ Len(c[i].approx) = 4
                        /\ c[i].convex }

\* C22: the boundary detection keeps is the contour of greatest area among
\* those that cover more than 10% of the frame, have exactly four vertices
\* and are convex; a contour that fails a test is never kept, and when no
\* contour passes all three the fallback rectangle is used.
C22_LargestConvexQuadChosen ==
    [][\A c \in GridContourLists : DetectsList(c) =>
          \A t \in detectTasks :
              LET pass == Candidates(c, t.width, t.height)
              IN  IF pass = {} THEN corners' = FallbackCorners(t)
                  ELSE \E i \in pass :
                          /\ \A j \in pass : c[j].area <= c[i].area
                          /\ corners' = ClassifyCorners(c[i].approx)]_vars

\* Detection has kept the outline of the whole frame, the larger of the
\* contours found.
C22_Witness ==
    /\ viewState = "EDITING" /\ ~isProcessing /\ error = "none"
    /\ capturedImage # Null /\ detectTasks = {}
    /\ corners = [ tl |-> Pt(0, 0), tr |-> Pt(capturedImage.width, 0),
                   br |-> Pt(capturedImage.width, capturedImage.height),
                   bl |-> Pt(0, capturedImage.height) ]

\* The capture of a frame of vw x vh pixels
CapturesFrom(vw, vh) ==
    /\ ViewShown("SCANNING") /\ ~isProcessing /\ videoSrc # 0
    /\ Commit(handleCapture(cur, vw, vh))

\* C23: a capture keeps the aspect ratio and caps the longer side at 1280: the
\* captured size is (vw, vh) scaled by min(1, 1280 / max(vw, vh)), so a source
\* whose sides are both within 1280 is stored at its own size, not enlarged.
C23_CaptureCapsLongestSide ==
    [][\A d \in CameraSizes : CapturesFrom(d[1], d[2]) =>
          LET longest == IF d[1] > d[2] THEN d[1] ELSE d[2]
          IN  IF longest <= MAX_DIMENSION
              THEN /\ capturedImage'.width = d[1]
                   /\ capturedImage'.height = d[2]
              ELSE /\ capturedImage'.width * longest = d[1] * MAX_DIMENSION
                   /\ capturedImage'.height * longest = d[2] * MAX_DIMENSION]_vars

\* C24: when Apply Crop fails with an exception the error is set,
\* isProcessing is false again, the view stays in EDITING with the captured
\* frame and the corners as they were, and no cropped page is stored.
C24_CropFailureKeepsEditing ==
    [][(mounted /\ CropThrew) =>
          /\ error' = "crop" /\ ~isProcessing'
          /\ viewState' = "EDITING"
          /\ capturedImage' = capturedImage /\ capturedImage' # Null
          /\ corners' = corners /\ corners' # Null
          /\ croppedImage' = Null]_vars

\* C25: Create PDF with an empty list would only set an error; with pages it
\* takes the list as it is; a run that succeeds produces a PDF with one page
\* per entry of that list, in list order, empties the list and shows the
\* download; a run that fails leaves the list alone, sets an error and ends
\* processing.
C25_PdfHoldsThePagesInOrder ==
    [][/\ scannedPages = << >> =>
              createPdfHandler(cur) = [cur EXCEPT !.error = "empty"]
       /\ (mounted /\ createPdf) =>
              /\ pdfTasks' = pdfTasks \cup {scannedPages}
              /\ scannedPages' = scannedPages
       /\ (mounted /\ CreatePdfDone) =>
              /\ \E t \in pdfTasks \ pdfTasks' :
                    /\ Len(generatedPdfInfo'.pages) = Len(t)
                    /\ \A i \in 1..Len(t) :
                          generatedPdfInfo'.pages[i] = t[i].dataUrl
              /\ scannedPages' = << >>
       /\ (mounted /\ CreatePdfThrew) =>
              /\ scannedPages' = scannedPages
              /\ generatedPdfInfo' = generatedPdfInfo
              /\ error' = "pdf" /\ ~isProcessing']_vars

\* A PDF of two pages has been created: the page accepted first comes first.
C25_Witness ==
    /\ mounted /\ generatedPdfInfo # Null /\ scannedPages = << >>
    /\ generatedPdfInfo.pages = << [img |-> 1, kind |-> "crop"],
                                   [img |-> 2, kind |-> "bw"] >>

\* C26: the objects of the page in progress are held one stage at a time:
\* capturedImage and croppedImage are never both non-null; in EDITING
\* capturedImage is non-null; in FILTERING croppedImage is non-null and
\* capturedImage and corners are null; in INITIAL and SCANNING croppedImage
\* is null.
C26_OneStageObjectAtATime ==
    mounted =>
        /\ ~(capturedImage # Null /\ croppedImage # Null)
        /\ viewState = "EDITING" => capturedImage # Null
        /\ viewState = "FILTERING" =>
              croppedImage # Null /\ capturedImage = Null /\ corners = Null
        /\ viewState \in {"INITIAL", "SCANNING"} => croppedImage = Null

\* C27: while the success screen is displayed (generatedPdfInfo non-null) no
\* live camera stream is held.
C27_NoStreamOnSuccessScreen ==
    (mounted /\ generatedPdfInfo # Null) => liveStreams = 0

\* C28: the loading flag tracks the filter work in flight and the preview
\* exists only in the filtering stage: isPreviewLoading is true whenever a
\* filter computation is in flight, and previewUrl is null whenever
\* viewState is not FILTERING.
C28_PreviewOnlyWhileFiltering ==
    mounted =>
        /\ filterTasks # EmptyBag => isPreviewLoading
        /\ viewState # "FILTERING" => previewUrl = Null

\* C29: for every convex quadrilateral with four distinct vertices the
\* classification is a bijection: each of the roles tl, tr, br, bl gets a
\* different vertex and every vertex gets a role, also when two vertices tie
\* on x + y or on y - x.
C29_ClassificationIsBijection ==
    [][\A q \in GridQuads : DetectsQuad(q) =>
          /\ {corners'.tl, corners'.tr, corners'.br, corners'.bl} = Vertices(q)
          /\ Cardinality({corners'.tl, corners'.tr, corners'.br, corners'.bl})
                 = 4]_vars

\* C30: no drag session survives the editing stage: draggingCorner is null
\* whenever viewState is not EDITING, so a new editing session starts with no
\* drag active.
C30_NoDragOutsideEditing ==
    (mounted /\ viewState # "EDITING") => draggingCorner = "none"

====
